---- MODULE Spec2Model ----
(***************************************************************************)
(* Storefront backend (src/main.py): catalog lookup by id and the cart     *)
(* engine (get / add / remove) over a document store.  The route handlers  *)
(* are plain `def` functions, which the framework runs on a pool of        *)
(* threads, so the store calls of two requests may interleave.  A handler  *)
(* is therefore split at its store calls: one step per find_one /          *)
(* create_document / update_one, with the in-memory work between two       *)
(* calls belonging to the later step.                                      *)
(*                                                                         *)
(* The store outlives the process: when the process starts, the cart       *)
(* collection is empty or holds carts that earlier add and remove requests *)
(* have left there.                                                        *)
(*                                                                         *)
(* Prices are floats in the code.  The model writes a price in thousandths *)
(* and only uses multiples of 1/8 (125 thousandths), which binary floating *)
(* point represents exactly, so that sum() is exact and round(x, 2) is     *)
(* round-half-to-even on the decimal value.                                *)
(***************************************************************************)
EXTENDS Integers, Sequences, FiniteSets, TLC

\* ------------------------------------------------------------------------
\* Bounds and input sets
\* ------------------------------------------------------------------------

\* number of requests the clients send in one run
MaxRequests == 2

\* Python None for an optional string field
None == "<None>"

Oid(c) == [i \in 1..24 |-> c]

\* well-formed ids of stored products, a well-formed id of no product,
\* and two malformed ids (wrong length, wrong alphabet)
OidA == Oid("a")
OidB == Oid("b")
OidAbsent == Oid("c")
OidShort == <<"a", "b", "c">>
OidNotHex == Oid("z")

StoredProducts == {OidA, OidB}
IdInputs == {OidA, OidB, OidAbsent, OidShort, OidNotHex}

Sessions == {"s1", "s2"}

\* quantity: int = Field(1, ge=1, le=10)
QuantityGe == 1
QuantityLe == 10
\* min(10, ...) of the merge
QuantityCap == 10

\* quantities a client may send: the two ends of the accepted range and
\* their neighbours outside it
QtyInputs == {QuantityGe - 1, QuantityGe, QuantityLe, QuantityLe + 1}

\* (title, price, image) a client may send with a line
Overcoat == [title |-> "Overcoat", price |-> 100000, image |-> None]
Shirt == [title |-> "Shirt", price |-> 125, image |-> "img"]
Details == {Overcoat, Shirt}

\* keys a client may send: the first two differ in the variant only, the
\* first and the third in the product only, the fourth is malformed
KeyInputs == { <<OidA, None>>, <<OidA, "S">>, <<OidB, None>>, <<OidShort, None>> }

Line(k, d, q) ==
    [product_id |-> k[1], title |-> d.title, price |-> d.price,
     image |-> d.image, quantity |-> q, variant |-> k[2]]

ItemInputs == { Line(k, d, q) : k \in KeyInputs, d \in Details, q \in QtyInputs }

\* carts left by earlier requests: session s1 has added an overcoat (nine
\* times 1), a shirt in size S (three times 1) and another overcoat (10);
\* session s2 has added one shirt in size S
SeedStore ==
    << [_id |-> 1, session_id |-> "s1",
        items |-> << Line(<<OidA, None>>, Overcoat, 9),
                     Line(<<OidA, "S">>, Shirt, 3),
                     Line(<<OidB, None>>, Overcoat, 10) >>],
       [_id |-> 2, session_id |-> "s2",
        items |-> << Line(<<OidA, "S">>, Shirt, 1) >>] >>

InitialStores == { <<>>, SeedStore }

\* ------------------------------------------------------------------------
\* State
\* ------------------------------------------------------------------------
VARIABLES
    db,         \* TRUE iff the process-wide store handle is not None
    product,    \* the `product` collection: the _id values of its documents
    cart,       \* the `cart` collection: a sequence of documents, in insertion order
    pending,    \* requests between two store calls, each with what it has read
    response,   \* the response of the request that returned last
    nreq,       \* number of requests received so far
    start,      \* history: the `cart` collection when the process started
    acked       \* history: the add and remove requests answered with
                \* {"status": "ok"}, in the order of their answers

vars == <<db, product, cart, pending, response, nreq, start, acked>>

\* ------------------------------------------------------------------------
\* Utility and request models
\* ------------------------------------------------------------------------
Hex == {"0", "1", "2", "3", "4", "5", "6", "7", "8", "9",
        "a", "b", "c", "d", "e", "f", "A", "B", "C", "D", "E", "F"}

\* ObjectId(str(v)) does not raise
ObjectIdValid(s) == Len(s) = 24 /\ \A i \in 1..Len(s) : s[i] \in Hex

\* CartItem with a fault: the quantity field declared without le=10
CartItemValidNoUpper(item) ==
    /\ ObjectIdValid(item.product_id)
    /\ item.quantity >= QuantityGe

\* CartItem: product_id is an ObjectIdStr, quantity is Field(1, ge=1, le=10)
CartItemValid(item) ==
    /\ ObjectIdValid(item.product_id)
    /\ item.quantity >= QuantityGe
    /\ item.quantity <= QuantityLe

\* CartRemove: product_id is an ObjectIdStr
CartRemoveValid(product_id) == ObjectIdValid(product_id)

\* the fields the 422 response of a rejected CartUpsert names
CartItemErrors(item) ==
    (IF ObjectIdValid(item.product_id) THEN {} ELSE {"product_id"})
    \cup (IF item.quantity >= QuantityGe /\ item.quantity <= QuantityLe
          THEN {} ELSE {"quantity"})

\* ------------------------------------------------------------------------
\* Store operations
\* ------------------------------------------------------------------------

\* db.cart.find_one({"session_id": s}): the first matching document, as a
\* sequence of length 0 (None) or 1
FindOne(coll, s) ==
    LET hits == {i \in 1..Len(coll) : coll[i].session_id = s}
    IN  IF hits = {} THEN <<>>
        ELSE <<coll[CHOOSE i \in hits : \A j \in hits : i <= j]>>

\* a store with a fault: it takes any insert, whatever it already holds
CreateAlwaysAccepted(coll, s) == TRUE

\* create_document("cart", {"session_id": s, "items": items}) succeeds
CreateAccepted(coll, s) == \A i \in 1..Len(coll) : coll[i].session_id # s

\* the collection after the insert; the new document gets a fresh _id
CreateDocument(coll, s, items) ==
    Append(coll, [_id |-> Len(coll) + 1, session_id |-> s, items |-> items])

\* update_one with a fault: a cart left without lines is deleted
UpdateOneDropEmpty(coll, id, items) ==
    IF items = <<>>
    THEN SelectSeq(coll, LAMBDA d : d._id # id)
    ELSE [i \in 1..Len(coll) |->
            IF coll[i]._id = id THEN [coll[i] EXCEPT !.items = items] ELSE coll[i]]

\* db.cart.update_one({"_id": id}, {"$set": {"items": items}})
UpdateOne(coll, id, items) ==
    [i \in 1..Len(coll) |->
        IF coll[i]._id = id THEN [coll[i] EXCEPT !.items = items] ELSE coll[i]]

\* ------------------------------------------------------------------------
\* Cart engine, in-memory parts
\* ------------------------------------------------------------------------
\* the comparison with a fault: the variant is not compared
SameProduct(i, product_id, variant) == i.product_id = product_id

\* i.get("product_id") == product_id and i.get("variant") == variant
SameLine(i, product_id, variant) ==
    i.product_id = product_id /\ i.variant = variant

\* the loop with a fault: the merged line takes the incoming item's title,
\* price and image
MergeOrAppendRefreshed(items, item) ==
    LET hits == {n \in 1..Len(items) :
                    items[n].product_id = item.product_id
                    /\ items[n].variant = item.variant}
    IN  IF hits = {} THEN Append(items, item)
        ELSE LET n == CHOOSE m \in hits : \A j \in hits : m <= j
                 sum == items[n].quantity + item.quantity
             IN  [items EXCEPT ![n] =
                     [item EXCEPT !.quantity =
                         IF sum < QuantityCap THEN sum ELSE QuantityCap]]

\* the loop with a fault: `merged = True` is missing, so that a merged item
\* is appended as well
MergeOrAppendAlsoAppends(items, item) ==
    LET hits == {n \in 1..Len(items) :
                    items[n].product_id = item.product_id
                    /\ items[n].variant = item.variant}
    IN  IF hits = {} THEN Append(items, item)
        ELSE LET n == CHOOSE m \in hits : \A j \in hits : m <= j
                 sum == items[n].quantity + item.quantity
             IN  Append([items EXCEPT ![n].quantity =
                            IF sum < QuantityCap THEN sum ELSE QuantityCap], item)

\* the loop of add_to_cart: merge into the first line with the item's key,
\* else append
MergeOrAppend(items, item) ==
    LET hits == {n \in 1..Len(items) :
                    SameLine(items[n], item.product_id, item.variant)}
    IN  IF hits = {} THEN Append(items, item)
        ELSE LET n == CHOOSE m \in hits : \A j \in hits : m <= j
                 sum == items[n].quantity + item.quantity
             IN  [items EXCEPT ![n].quantity =
                     IF sum < QuantityCap THEN sum ELSE QuantityCap]

\* the list comprehension with a fault: every line of the product goes
RemoveLinesOfProduct(items, product_id, variant) ==
    SelectSeq(items, LAMBDA i : i.product_id # product_id)

\* the list comprehension of remove_from_cart
RECURSIVE RemoveLines(_, _, _)
RemoveLines(items, product_id, variant) ==
    IF items = <<>> THEN <<>>
    ELSE LET rest == RemoveLines(Tail(items), product_id, variant)
         IN  IF SameLine(Head(items), product_id, variant) THEN rest
             ELSE <<Head(items)>> \o rest

\* the sum with a fault: the quantity is left out
SubtotalOfPrices(items) ==
    LET RECURSIVE Prices(_)
        Prices(n) == IF n = 0 THEN 0 ELSE Prices(n - 1) + items[n].price
    IN  Prices(Len(items))

\* sum(price * quantity for i in items), in thousandths
RECURSIVE Subtotal(_)
Subtotal(items) ==
    IF items = <<>> THEN 0
    ELSE Head(items).price * Head(items).quantity + Subtotal(Tail(items))

\* round(x, 2) of a non-negative amount in thousandths: half to even
Round2(x) ==
    LET q == x \div 10
        r == x % 10
    IN  IF r < 5 THEN 10 * q
        ELSE IF r > 5 THEN 10 * (q + 1)
        ELSE IF q % 2 = 0 THEN 10 * q ELSE 10 * (q + 1)

\* the body of get_cart: <<id, items, subtotal>>; id is <<>> when the
\* response has no "id" field
CartView(dbUp, coll, s) ==
    LET found == IF dbUp THEN FindOne(coll, s) ELSE <<>>
    IN  IF found = <<>> THEN [id |-> <<>>, items |-> <<>>, subtotal |-> 0]
        ELSE [id |-> <<found[1]._id>>, items |-> found[1].items,
              subtotal |-> Round2(Subtotal(found[1].items))]

\* the status of get_product: the HTTPException(404) raised inside the try
\* block is an Exception, so the except clause turns it into a 400
ProductStatus(dbUp, coll, id) ==
    IF ~dbUp THEN 404
    ELSE LET raised ==
                 IF ~ObjectIdValid(id) THEN "InvalidId"
                 ELSE IF id \notin coll THEN "HTTPException"
                 ELSE "nothing"
         IN  IF raised = "nothing" THEN 200 ELSE 400

\* ------------------------------------------------------------------------
\* Responses and the initial state
\* ------------------------------------------------------------------------

\* what the client of the last request to return got: the route, the HTTP
\* status, the session or product id the request named, and the JSON body
\* where it is more than {"status": "ok"}
NoResponse ==
    [op |-> "none", status |-> 0, session_id |-> None, product_id |-> <<>>,
     body |-> <<>>]

Resp(op, status, s, pid, body) ==
    [op |-> op, status |-> status, session_id |-> s, product_id |-> pid,
     body |-> body]

Ack(p) == [op |-> p.op, session_id |-> p.session_id, item |-> p.item]

Init ==
    /\ db \in BOOLEAN
    /\ product = IF db THEN StoredProducts ELSE {}
    /\ cart \in IF db THEN InitialStores ELSE {<<>>}
    /\ pending = {}
    /\ response = NoResponse
    /\ nreq = 0
    /\ start = cart
    /\ acked = <<>>

\* ------------------------------------------------------------------------
\* GET /api/products/{product_id}
\* ------------------------------------------------------------------------
GetProduct(id) ==
    /\ nreq < MaxRequests
    /\ nreq' = nreq + 1
    /\ response' = Resp("get_product", ProductStatus(db, product, id), None, id, <<>>)
    /\ UNCHANGED <<db, product, cart, pending, start, acked>>

\* ------------------------------------------------------------------------
\* GET /api/cart
\* ------------------------------------------------------------------------
GetCart(s) ==
    /\ nreq < MaxRequests
    /\ nreq' = nreq + 1
    /\ response' = Resp("get_cart", 200, s, <<>>, <<CartView(db, cart, s)>>)
    /\ UNCHANGED <<db, product, cart, pending, start, acked>>

\* ------------------------------------------------------------------------
\* POST /api/cart/add
\* ------------------------------------------------------------------------

\* the body fails validation: 422 before the handler runs
AddToCartInvalid(s, item) ==
    /\ nreq < MaxRequests
    /\ ~CartItemValid(item)
    /\ nreq' = nreq + 1
    /\ response' = Resp("add", 422, s, <<>>, <<CartItemErrors(item)>>)
    /\ UNCHANGED <<db, product, cart, pending, start, acked>>

\* db is None
AddToCartUnavailable(s, item) ==
    /\ nreq < MaxRequests
    /\ CartItemValid(item)
    /\ ~db
    /\ nreq' = nreq + 1
    /\ response' = Resp("add", 500, s, <<>>, <<>>)
    /\ UNCHANGED <<db, product, cart, pending, start, acked>>

\* cart = db.cart.find_one(...); item = payload.item.model_dump()
AddToCartFind(s, item) ==
    /\ nreq < MaxRequests
    /\ CartItemValid(item)
    /\ db
    /\ nreq' = nreq + 1
    /\ pending' = pending \cup
          {[id |-> nreq + 1, op |-> "add", session_id |-> s, item |-> item,
            found |-> FindOne(cart, s)]}
    /\ UNCHANGED <<db, product, cart, response, start, acked>>

\* cart is None: create_document("cart", ...)
AddToCartCreate(p) ==
    /\ p \in pending
    /\ p.op = "add"
    /\ p.found = <<>>
    /\ pending' = pending \ {p}
    /\ IF CreateAccepted(cart, p.session_id)
       THEN /\ cart' = CreateDocument(cart, p.session_id, <<p.item>>)
            /\ response' = Resp("add", 200, p.session_id, <<>>, <<>>)
            /\ acked' = Append(acked, Ack(p))
       ELSE /\ cart' = cart
            /\ response' = Resp("add", 500, p.session_id, <<>>, <<>>)
            /\ acked' = acked
    /\ UNCHANGED <<db, product, nreq, start>>

\* the write with a fault removed: the item is merged into the lines the
\* cart holds at the time of the write, not into the lines read earlier
AddToCartUpdateInPlace(p) ==
    /\ p \in pending
    /\ p.op = "add"
    /\ p.found # <<>>
    /\ pending' = pending \ {p}
    /\ cart' = UpdateOne(cart, p.found[1]._id,
                  MergeOrAppend(FindOne(cart, p.session_id)[1].items, p.item))
    /\ response' = Resp("add", 200, p.session_id, <<>>, <<>>)
    /\ acked' = Append(acked, Ack(p))
    /\ UNCHANGED <<db, product, nreq, start>>

\* cart is a document: merge or append, then update_one
AddToCartUpdate(p) ==
    /\ p \in pending
    /\ p.op = "add"
    /\ p.found # <<>>
    /\ pending' = pending \ {p}
    /\ cart' = UpdateOne(cart, p.found[1]._id, MergeOrAppend(p.found[1].items, p.item))
    /\ response' = Resp("add", 200, p.session_id, <<>>, <<>>)
    /\ acked' = Append(acked, Ack(p))
    /\ UNCHANGED <<db, product, nreq, start>>

\* ------------------------------------------------------------------------
\* POST /api/cart/remove
\* ------------------------------------------------------------------------
RemoveFromCartInvalid(s, product_id, variant) ==
    /\ nreq < MaxRequests
    /\ ~CartRemoveValid(product_id)
    /\ nreq' = nreq + 1
    /\ response' = Resp("remove", 422, s, <<>>, <<{"product_id"}>>)
    /\ UNCHANGED <<db, product, cart, pending, start, acked>>

RemoveFromCartUnavailable(s, product_id, variant) ==
    /\ nreq < MaxRequests
    /\ CartRemoveValid(product_id)
    /\ ~db
    /\ nreq' = nreq + 1
    /\ response' = Resp("remove", 500, s, <<>>, <<>>)
    /\ UNCHANGED <<db, product, cart, pending, start, acked>>

\* cart = db.cart.find_one(...); `if not cart: return {"status": "ok"}`
RemoveFromCartFind(s, product_id, variant) ==
    /\ nreq < MaxRequests
    /\ CartRemoveValid(product_id)
    /\ db
    /\ nreq' = nreq + 1
    /\ LET p == [id |-> nreq + 1, op |-> "remove", session_id |-> s,
                 item |-> [product_id |-> product_id, variant |-> variant],
                 found |-> FindOne(cart, s)]
       IN  IF p.found = <<>>
           THEN /\ response' = Resp("remove", 200, s, <<>>, <<>>)
                /\ acked' = Append(acked, Ack(p))
                /\ pending' = pending
           ELSE /\ pending' = pending \cup {p}
                /\ response' = response
                /\ acked' = acked
    /\ UNCHANGED <<db, product, cart, start>>

\* filter the lines read, then update_one
RemoveFromCartUpdate(p) ==
    /\ p \in pending
    /\ p.op = "remove"
    /\ pending' = pending \ {p}
    /\ cart' = UpdateOne(cart, p.found[1]._id,
                  RemoveLines(p.found[1].items, p.item.product_id, p.item.variant))
    /\ response' = Resp("remove", 200, p.session_id, <<>>, <<>>)
    /\ acked' = Append(acked, Ack(p))
    /\ UNCHANGED <<db, product, nreq, start>>

\* ------------------------------------------------------------------------
Next ==
    \/ \E id \in IdInputs : GetProduct(id)
    \/ \E s \in Sessions : GetCart(s)
    \/ \E s \in Sessions, item \in ItemInputs : AddToCartInvalid(s, item)
    \/ \E s \in Sessions, item \in ItemInputs : AddToCartUnavailable(s, item)
    \/ \E s \in Sessions, item \in ItemInputs : AddToCartFind(s, item)
    \/ \E p \in pending : AddToCartCreate(p)
    \/ \E p \in pending : AddToCartUpdate(p)
    \/ \E s \in Sessions, k \in KeyInputs : RemoveFromCartInvalid(s, k[1], k[2])
    \/ \E s \in Sessions, k \in KeyInputs : RemoveFromCartUnavailable(s, k[1], k[2])
    \/ \E s \in Sessions, k \in KeyInputs : RemoveFromCartFind(s, k[1], k[2])
    \/ \E p \in pending : RemoveFromCartUpdate(p)

Spec == Init /\ [][Next]_vars

\* ------------------------------------------------------------------------
\* Vocabulary of the properties
\* ------------------------------------------------------------------------
Min(a, b) == IF a <= b THEN a ELSE b

\* the merge key of a line, of an item or of a remove request
Key(l) == <<l.product_id, l.variant>>

\* the cart documents of a session, and the lines of its cart
CartsOf(coll, s) == {i \in 1..Len(coll) : coll[i].session_id = s}
Lines(coll, s) ==
    IF CartsOf(coll, s) = {} THEN <<>>
    ELSE coll[CHOOSE i \in CartsOf(coll, s) : TRUE].items

Positions(items, k) == {n \in 1..Len(items) : Key(items[n]) = k}

\* this step is the last one of request p
Returns(p) == p \in pending /\ p \notin pending'

\* p has read a cart and no request has written to it since
Undisturbed(p) ==
    /\ p.found # <<>>
    /\ \E i \in 1..Len(cart) : cart[i] = p.found[1]

\* this step receives a request and answers it at once
AnswersAtOnce(op) ==
    /\ nreq' = nreq + 1
    /\ pending' = pending
    /\ response'.op = op

\* the effect of request p on its cart when p merges its item into a line
C1_MergeStep(p) ==
    LET old == Lines(cart, p.session_id)
        new == Lines(cart', p.session_id)
    IN  /\ Len(new) = Len(old)
        /\ \A n \in 1..Len(old) :
              IF Key(old[n]) = Key(p.item)
              THEN new[n] = [old[n] EXCEPT
                       !.quantity = Min(10, old[n].quantity + p.item.quantity)]
              ELSE new[n] = old[n]

\* ------------------------------------------------------------------------
\* C1: when an add finds, in the cart it has read and that nobody has
\* written since, a line with the item's (product_id, variant) key, the cart
\* keeps its number of lines, that line gets quantity min(10, q1 + q2) and
\* keeps its title, price and image, and every other line is as before.
\* ------------------------------------------------------------------------
C1_MergeKeepsLine ==
    [][\A p \in pending :
          ( /\ p.op = "add"
            /\ Returns(p)
            /\ Undisturbed(p)
            /\ Positions(Lines(cart, p.session_id), Key(p.item)) # {} )
          => C1_MergeStep(p)]_vars

\* two adds of the same key with different titles and q1 + q2 > 10 have
\* been answered, and the cart holds the first one's line with quantity 10
C1_Witness ==
    /\ start = <<>>
    /\ Len(acked) = 2
    /\ acked[1].op = "add" /\ acked[2].op = "add"
    /\ acked[1].session_id = acked[2].session_id
    /\ Key(acked[1].item) = Key(acked[2].item)
    /\ acked[1].item.title # acked[2].item.title
    /\ acked[1].item.quantity + acked[2].item.quantity > 10
    /\ Lines(cart, acked[1].session_id) = <<[acked[1].item EXCEPT !.quantity = 10]>>

\* the parts of the quantity property: the store, the requests in flight,
\* and the step that answers a request rejected for its quantity
C2_StoredInRange ==
    \A i \in 1..Len(cart) : \A n \in 1..Len(cart[i].items) :
        cart[i].items[n].quantity \in 1..10

C2_AdmittedInRange ==
    \A p \in pending : p.op = "add" => p.item.quantity \in 1..10

C2_RejectStep ==
    ( /\ AnswersAtOnce("add")
      /\ response'.body # <<>>
      /\ "quantity" \in response'.body[1] )
    => /\ response'.status = 422
       /\ cart' = cart
       /\ acked' = acked

\* ------------------------------------------------------------------------
\* C2: every stored line has a quantity in 1..10; no add whose quantity is
\* outside 1..10 gets past validation, and the step that rejects it leaves
\* the store unchanged.
\* ------------------------------------------------------------------------
C2_QuantityInRange ==
    /\ [](C2_StoredInRange /\ C2_AdmittedInRange)
    /\ [][C2_RejectStep]_vars

\* after a merge that was capped, an add is rejected for its quantity
C2_Witness ==
    /\ start = SeedStore
    /\ Len(acked) = 1
    /\ acked[1].op = "add"
    /\ acked[1].session_id = "s1"
    /\ Key(acked[1].item) = <<OidA, "S">>
    /\ acked[1].item.quantity = 10
    /\ Lines(cart, "s1")[2].quantity = 10
    /\ response.op = "add"
    /\ response.status = 422
    /\ "quantity" \in response.body[1]

\* ------------------------------------------------------------------------
\* C3: no cart holds two lines with the same (product_id, variant) key; a
\* line without variant and a line with a variant of the same product are
\* different lines.
\* ------------------------------------------------------------------------
C3_NoDuplicateKeys ==
    \A i \in 1..Len(cart) :
        \A n, m \in 1..Len(cart[i].items) :
            n # m => Key(cart[i].items[n]) # Key(cart[i].items[m])

\* a cart built by two adds holds the same product without and with variant
C3_Witness ==
    /\ start = <<>>
    /\ Len(acked) = 2
    /\ \E s \in Sessions :
          /\ Len(Lines(cart, s)) = 2
          /\ Key(Lines(cart, s)[1]) = <<OidA, None>>
          /\ Key(Lines(cart, s)[2]) = <<OidA, "S">>

\* ------------------------------------------------------------------------
\* C4: get_product answers 400 to a malformed id, 404 to a well-formed id
\* of no stored product, and never reports the latter as invalid.
\* ------------------------------------------------------------------------
C4_ProductLookupStatus ==
    (db /\ response.op = "get_product")
    => IF response.product_id \in {OidShort, OidNotHex} THEN response.status = 400
       ELSE IF response.product_id \notin product THEN response.status = 404
       ELSE response.status = 200

\* ------------------------------------------------------------------------
\* C5: the store holds at most one cart document per session_id, also
\* when two adds for a session both start while it has no cart.
\* ------------------------------------------------------------------------
C5_OneCartPerSession ==
    \A i, j \in 1..Len(cart) :
        i # j => cart[i].session_id # cart[j].session_id

\* two adds for one session have both read "no cart"; one has created the
\* cart and the other has been refused
C5_Witness ==
    /\ db
    /\ start = <<>>
    /\ nreq = 2
    /\ pending = {}
    /\ Len(acked) = 1
    /\ acked[1].op = "add"
    /\ response.op = "add"
    /\ response.status = 500
    /\ response.session_id = acked[1].session_id
    /\ Cardinality(CartsOf(cart, response.session_id)) = 1

\* the effect of request p on its cart when p appends its item, and when p
\* creates the cart
C6_AppendStep(p) ==
    LET old == Lines(cart, p.session_id)
        new == Lines(cart', p.session_id)
    IN  /\ Len(new) = Len(old) + 1
        /\ new[Len(new)] = p.item
        /\ \A n \in 1..Len(old) : new[n] = old[n]

C6_CreateStep(p) ==
    /\ Cardinality(CartsOf(cart', p.session_id)) = 1
    /\ Lines(cart', p.session_id) = <<p.item>>
    /\ Len(cart') = Len(cart) + 1

\* ------------------------------------------------------------------------
\* C6: when an add finds no line with the item's key in the cart it has
\* read (and nobody has written since), the item becomes the last line, the
\* number of lines grows by 1 and the earlier lines keep value and position;
\* when it finds no cart (and none has been created since), the session
\* gets one cart whose items are exactly [item].
\* ------------------------------------------------------------------------
C6_AppendsNewLine ==
    [][\A p \in pending :
          (p.op = "add" /\ Returns(p))
          => /\ ( /\ Undisturbed(p)
                  /\ Positions(Lines(cart, p.session_id), Key(p.item)) = {} )
                => C6_AppendStep(p)
             /\ (p.found = <<>> /\ CartsOf(cart, p.session_id) = {})
                => C6_CreateStep(p)]_vars

\* two adds with new keys, one after the other, are lines 2 and 3 of a cart
\* that had one line
C6_Witness ==
    /\ start = SeedStore
    /\ Len(acked) = 2
    /\ acked[1].op = "add" /\ acked[2].op = "add"
    /\ acked[1].session_id = "s2" /\ acked[2].session_id = "s2"
    /\ Lines(cart, "s2") = <<SeedStore[2].items[1], acked[1].item, acked[2].item>>

\* the effect of request p when p removes the one line with its key
C7_RemoveStep(p) ==
    LET old == Lines(cart, p.session_id)
        new == Lines(cart', p.session_id)
        n == CHOOSE m \in Positions(old, Key(p.item)) : TRUE
    IN  /\ Len(new) = Len(old) - 1
        /\ \A m \in 1..Len(new) : new[m] = IF m < n THEN old[m] ELSE old[m + 1]
        /\ Len(cart') = Len(cart)
        /\ \A i \in 1..Len(cart) :
              cart[i].session_id # p.session_id => cart'[i] = cart[i]

\* ------------------------------------------------------------------------
\* C7: when a remove finds its key exactly once in the cart it has read
\* (and nobody has written since), the cart loses exactly that line, the
\* other lines keep value and order, and the other carts are unchanged.
\* ------------------------------------------------------------------------
C7_RemovesOneLine ==
    [][\A p \in pending :
          ( /\ p.op = "remove"
            /\ Returns(p)
            /\ Undisturbed(p)
            /\ Cardinality(Positions(Lines(cart, p.session_id), Key(p.item))) = 1 )
          => C7_RemoveStep(p)]_vars

\* the middle line of a cart of three has been removed
C7_Witness ==
    /\ start = SeedStore
    /\ Len(acked) = 1
    /\ acked[1].op = "remove"
    /\ acked[1].session_id = "s1"
    /\ Key(acked[1].item) = <<OidA, "S">>
    /\ Lines(cart, "s1") = <<SeedStore[1].items[1], SeedStore[1].items[3]>>
    /\ cart[2] = SeedStore[2]

\* a remove answered at once for a session without cart, and the last step
\* of a remove p that has read a cart
C8_AbsentStep ==
    ( /\ AnswersAtOnce("remove")
      /\ db
      /\ response'.status # 422
      /\ CartsOf(cart, response'.session_id) = {} )
    => /\ response'.status = 200
       /\ cart' = cart

C8_CartStep(p) ==
    LET old == Lines(cart, p.session_id)
    IN  /\ response'.op = "remove"
        /\ response'.status = 200
        /\ old = <<>> => cart' = cart
        /\ (Len(old) = 1 /\ Key(old[1]) = Key(p.item))
           => /\ Len(cart') = Len(cart)
              /\ CartsOf(cart', p.session_id) = CartsOf(cart, p.session_id)
              /\ CartsOf(cart', p.session_id) # {}
              /\ Lines(cart', p.session_id) = <<>>

\* ------------------------------------------------------------------------
\* C8: with the store available, a well-formed remove for a session without
\* cart is answered {"status": "ok"} at once and changes nothing; a remove
\* that has read a cart with empty items (nobody having written since) is
\* answered ok and leaves the store as it is; a remove of the only line of
\* a cart is answered ok and leaves the cart document in place with
\* items = [].
\* ------------------------------------------------------------------------
C8_RemoveNeverFails ==
    [][/\ C8_AbsentStep
       /\ \A p \in pending :
             (p.op = "remove" /\ Returns(p) /\ Undisturbed(p)) => C8_CartStep(p)]_vars

\* the only line of a cart has been removed, and then the same remove was
\* answered ok on the empty cart, which still exists
C8_Witness ==
    /\ start = SeedStore
    /\ Len(acked) = 2
    /\ acked[1].op = "remove" /\ acked[2].op = "remove"
    /\ acked[1].session_id = "s2" /\ acked[2].session_id = "s2"
    /\ Key(acked[1].item) = <<OidA, "S">>
    /\ response.op = "remove"
    /\ response.status = 200
    /\ CartsOf(cart, "s2") # {}
    /\ Lines(cart, "s2") = <<>>
    /\ pending = {}

\* the sum of price * quantity over the lines, in thousandths
C9_Sum(items) ==
    LET RECURSIVE Upto(_)
        Upto(n) == IF n = 0 THEN 0
                   ELSE Upto(n - 1) + items[n].price * items[n].quantity
    IN  Upto(Len(items))

\* r is x (thousandths) rounded to a multiple of 10 (hundredths), the
\* nearest one, and the even one of two at the same distance
C9_Rounded(r, x) ==
    /\ r % 10 = 0
    /\ r - x <= 5 /\ x - r <= 5
    /\ (r - x = 5 \/ x - r = 5) => (r \div 10) % 2 = 0

C9_GetCartStep ==
    AnswersAtOnce("get_cart")
    => LET view == response'.body[1]
           stored == Lines(cart, response'.session_id)
       IN  /\ response'.status = 200
           /\ view.items = stored
           /\ C9_Rounded(view.subtotal, C9_Sum(stored))
           /\ stored = <<>> => view.subtotal = 0
           /\ cart' = cart

\* ------------------------------------------------------------------------
\* C9: get_cart answers with the stored lines of the session and with the
\* sum of price * quantity over them, rounded to 2 decimals; without cart
\* and with an empty cart the lines are empty and the subtotal is 0; the
\* store is unchanged.
\* ------------------------------------------------------------------------
C9_SubtotalOfStoredLines == [][C9_GetCartStep]_vars

\* after a remove, get_cart has answered with two lines whose sum had to be
\* rounded
C9_Witness ==
    /\ Len(acked) = 1
    /\ response.op = "get_cart"
    /\ Len(response.body[1].items) = 2
    /\ response.body[1].items = Lines(cart, response.session_id)
    /\ C9_Sum(response.body[1].items) % 10 = 5
    /\ response.body[1].subtotal # C9_Sum(response.body[1].items)

\* the effect of the write of request p in terms of what p has read
C10_WriteStep(p) ==
    LET snap == p.found[1].items
        doc == CHOOSE i \in 1..Len(cart') : cart'[i]._id = p.found[1]._id
        new == cart'[doc].items
    IN  /\ response'.op = "add"
        /\ response'.status = 200
        /\ \/ new = Append(snap, p.item)
           \/ \E n \in 1..Len(snap), q \in 1..10 :
                 /\ Key(snap[n]) = Key(p.item)
                 /\ new = [snap EXCEPT ![n].quantity = q]

\* ------------------------------------------------------------------------
\* C10: an add that has read a cart is answered ok and replaces the whole
\* items field by the lines it has read, with its item appended or merged
\* into one of them, whatever the cart holds at the time of the write; so
\* what another add has written in between is lost.
\* ------------------------------------------------------------------------
C10_LastWriterWins ==
    [][\A p \in pending :
          (p.op = "add" /\ Returns(p) /\ p.found # <<>>) => C10_WriteStep(p)]_vars

\* two adds with different new keys for one existing cart have both been
\* answered ok, and the cart has only one line more than before
C10_Witness ==
    /\ start = SeedStore
    /\ Len(acked) = 2
    /\ acked[1].op = "add" /\ acked[2].op = "add"
    /\ acked[1].session_id = "s2" /\ acked[2].session_id = "s2"
    /\ Key(acked[1].item) # Key(acked[2].item)
    /\ Positions(Lines(start, "s2"), Key(acked[1].item)) = {}
    /\ Positions(Lines(start, "s2"), Key(acked[2].item)) = {}
    /\ Len(Lines(cart, "s2")) = Len(Lines(start, "s2")) + 1
    /\ Positions(Lines(cart, "s2"), Key(acked[1].item)) = {}

\* the same for two adds of one key that the cart already holds: both have
\* been answered ok, and the quantity is less than min(10, q0 + q1 + q2)
C10_LostQuantity ==
    /\ start = SeedStore
    /\ Len(acked) = 2
    /\ acked[1].op = "add" /\ acked[2].op = "add"
    /\ acked[1].session_id = "s1" /\ acked[2].session_id = "s1"
    /\ Key(acked[1].item) = <<OidA, "S">>
    /\ Key(acked[2].item) = <<OidA, "S">>
    /\ Lines(cart, "s1")[2].quantity <
          Min(10, Lines(start, "s1")[2].quantity
                    + acked[1].item.quantity + acked[2].item.quantity)

====
